---- MODULE Spec2Model ----
(***************************************************************************)
(* cosmos-dumper (src/cosmos_dumper/cli.py): the export pipeline           *)
(* (export_container: partition fetchers -> bounded queue -> writer) and   *)
(* the import pipeline (import_cmd: job discovery, import_file: streaming  *)
(* parse -> shuffle buffer -> semaphore-gated upserts, indexing policy     *)
(* capture and restore).                                                   *)
(*                                                                         *)
(* Output files are sequences of one-character strings.  An item is known  *)
(* to the program only by its "id", a positive integer here, and           *)
(* json.dumps(item) is the three characters "{", the id's digit, "}".      *)
(***************************************************************************)
EXTENDS Integers, Sequences, FiniteSets, TLC

\* ---------------------------------------------------------------- bounds
\* Partition ranges read_feed_ranges may return.
MaxRanges == 2
\* Items the source collection may hold (ids 1..MaxItems).
MaxItems == 3
\* Page round trips the fetchers of the collection may make in all.
MaxTrips == 2
\* asyncio.Queue(maxsize=100) at cli.py:136, scaled down so that a full
\* queue (back-pressure on queue.put) is reached.
QueueMaxsize == 1

\* ---------------------------------------------------------------- export state
VARIABLES
    use_jsonl,      \* args.jsonl
    epc,            \* export_container: where the orchestrating coroutine is
    nranges,        \* len(pk_ranges)
    fst,            \* per range: the state of its fetch_range coroutine
    hand,           \* per range: the page it holds while suspended in queue.put
    ntrips,         \* page round trips made so far
    fetched,        \* per range: every item its pages returned, in order
    nextId,         \* the id of the next item the store returns
    queue,          \* the asyncio.Queue: batches, and None as NoneBatch
    wpc,            \* writer_worker: where the writer task is
    wbatch,         \* the items of the batch in hand not yet written
    first_item,     \* writer_worker's first_item flag
    files,          \* the output files of the collection, each a character sequence
    container_ru,   \* response_hook's per-container total
    total_ru,       \* response_hook's global total
    queries,        \* per range: query_items calls made with it as feed_range
    pages,          \* the non-empty pages by_page() returned, in fetch order
    sentinels,      \* queue.put(None) calls that have returned
    sib,            \* export_container of a sibling collection: where it is
    sibling_ru      \* the sibling's per-container total

\* The sibling collection's export_container.
sibVars == <<sib, sibling_ru>>

exportVars == <<use_jsonl, epc, nranges, fst, hand, ntrips, fetched,
                nextId, queue, wpc, wbatch, first_item, files, container_ru, total_ru,
                queries, pages, sentinels, sibVars>>


\* ---------------------------------------------------------------- import bounds
\* The largest --concurrency an import is run with.
MaxConcurrency == 2
\* Items the import files of one run may hold in all.
MaxFileItems == 3
\* Import jobs (files_to_import entries) one run may hold.
MaxJobs == 2
\* SHUFFLE_BUFFER_SIZE = 5000 at cli.py:306, scaled down so that files
\* shorter than, as long as and longer than the buffer are imported.
SHUFFLE_BUFFER_SIZE == 2
\* The 20 of `args.concurrency + 20` at cli.py:312, scaled down so that the
\* cap on created tasks is reached.
TaskSlack == 1
\* Files the import directory may hold.
MaxDirFiles == 3
\* The largest <n> of a file name <collection>_export_<n>.<ext> in it.
MaxSuffix == 1
\* Items of the largest export that is imported again.
MaxRoundTripItems == 2

\* ---------------------------------------------------------------- import state
VARIABLES
    concurrency,    \* args.concurrency
    shuffle,        \* args.shuffle
    cexists0,       \* the database before the run: which containers exist
    policy0,        \* the database before the run: their indexingMode
    cexists,        \* the database: which containers exist
    policy,         \* the database: indexingMode of each container
    docs,           \* the database: ids of the items each container holds
    ipc,            \* import_cmd / import_file: where the main coroutine is
    waiting,        \* the main coroutine is suspended in process_item's asyncio.wait
    jidx,           \* import jobs started so far
    nread,          \* items held by the files opened so far
    container_name, \* import_file: the job's target container
    original_indexing_policy,  \* import_file: captured indexingMode, NoPolicy for None
    items,          \* import_file: what the parser has still to yield
    perr,           \* import_file: the parser raises after yielding `items`
    parsed,         \* import_file: what the parser has yielded so far
    shuffle_buffer, \* import_file: shuffle_buffer
    flush,          \* import_file: what the flush loop has still to process
    submitted,      \* import_file: items passed to process_item so far, in order
    items_imported, \* import_file: items_imported
    items_failed,   \* import_file: "Error importing item" lines logged for its upserts
    tasks,          \* upsert tasks created and not completed, in creation order
    semaphore,      \* the value of asyncio.Semaphore(args.concurrency)
    replace_calls,  \* containers db.replace_container was called for
    import_ru,      \* import_cmd's total_ru
    import_errors,  \* logger.error calls of the import so far
    dir,            \* the names of the files in the import directory
    path,           \* args.path: <<>> for the directory, else the name of a file in it
    from_container,    \* args.from_container, <<>> for None
    target_container,  \* args.container, <<>> for None
    files_to_import,   \* import_cmd: files_to_import
    dpc             \* import_cmd: where job discovery is

\* What import_cmd is given and job discovery computes from it.
discVars == <<dir, path, from_container, target_container, files_to_import, dpc>>

cfgVars == <<concurrency, shuffle, cexists0, policy0, discVars>>

dbVars == <<cexists, policy, docs>>

\* The locals of one import_file call.
localVars == <<container_name, original_indexing_policy, items, perr, parsed,
               shuffle_buffer, flush, submitted, items_imported, items_failed>>

importVars == <<cfgVars, dbVars, ipc, waiting, jidx, nread, localVars, tasks, semaphore,
                replace_calls, import_ru, import_errors>>

vars == <<exportVars, importVars>>

Ranges == 1..MaxRanges

\* The sentinel export_container puts after the fetchers: None.  A batch is
\* never empty (fetch_range puts a page only `if items`), so the empty
\* sequence stands for it.
NoneBatch == <<>>

\* f.write of the opening, separating and closing delimiters.
OpenDelim(jsonl) == IF jsonl THEN <<>> ELSE <<"[", "\n">>
SepDelim(jsonl) == IF jsonl THEN <<"\n">> ELSE <<",", "\n">>
CloseDelim(jsonl) == IF jsonl THEN <<>> ELSE <<"\n", "]">>

\* json.dumps(item)
Dumps(item) == <<"{", ToString(item), "}">>

\* ItemBytes with the first_item test lost: the separator is always written.
ItemBytesAlwaysSep(first, jsonl, item) == SepDelim(jsonl) \o Dumps(item)

\* What one pass of the writer's `for item in batch` body appends.
ItemBytes(first, jsonl, item) ==
    (IF first THEN <<>> ELSE SepDelim(jsonl)) \o Dumps(item)

\* The page the store returns: k fresh items.
FreshPage(k) == [i \in 1..k |-> nextId + i - 1]

\* headers["x-ms-request-charge"] of a round trip that returns k items.
Charge(k) == 1 + k

\* Hook that stores the charge instead of adding it.
HookAssigns(total, charge) == charge

\* response_hook: `total += charge`, run to its end without a suspension.
Hook(total, charge) == total + charge

\* export_cmd found no other collection to export.
NoSibling ==
    /\ sib = "none"
    /\ sibling_ru = 0

ExportInit ==
    /\ use_jsonl \in BOOLEAN
    /\ epc = "enum"
    /\ nranges = 0
    /\ fst = [r \in Ranges |-> "idle"]
    /\ hand = [r \in Ranges |-> <<>>]
    /\ ntrips = 0
    /\ fetched = [r \in Ranges |-> <<>>]
    /\ nextId = 1
    /\ queue = <<>>
    /\ wpc = "start"
    /\ wbatch = <<>>
    /\ first_item = TRUE
    /\ files = <<>>
    /\ container_ru = 0
    /\ total_ru = 0
    /\ queries = [r \in Ranges |-> 0]
    /\ pages = <<>>
    /\ sentinels = 0

\* ---------------------------------------------------------------- writer_worker
\* aiofiles.open(file_path, "w") and the opening delimiter.
WriterOpen ==
    /\ wpc = "start"
    /\ files' = files \o <<OpenDelim(use_jsonl)>>
    /\ first_item' = TRUE
    /\ wpc' = "get"
    /\ UNCHANGED <<use_jsonl, epc, nranges, fst, hand, ntrips, fetched,
                   nextId, queue, wbatch, container_ru, total_ru>>
    /\ UNCHANGED <<queries, pages, sentinels, sibVars>>
    /\ UNCHANGED importVars

\* batch = await queue.get(); None ends the loop and the closing delimiter
\* is written.
WriterGet ==
    /\ wpc = "get"
    /\ queue /= <<>>
    /\ queue' = Tail(queue)
    /\ IF Head(queue) = NoneBatch
       THEN /\ files' = [files EXCEPT ![Len(files)] = @ \o CloseDelim(use_jsonl)]
            /\ wpc' = "closed"
            /\ wbatch' = wbatch
       ELSE /\ wbatch' = Head(queue)
            /\ wpc' = "write"
            /\ files' = files
    /\ UNCHANGED <<use_jsonl, epc, nranges, fst, hand, ntrips, fetched,
                   nextId, first_item, container_ru, total_ru>>
    /\ UNCHANGED <<queries, pages, sentinels, sibVars>>
    /\ UNCHANGED importVars

\* BatchBytes with the loop cut to the batch's first item.
BatchBytesFirstOnly(first, jsonl, b) ==
    IF b = <<>> THEN <<>> ELSE ItemBytes(first, jsonl, Head(b))

\* BatchBytes of a loop over reversed(batch).
RECURSIVE BatchBytesReversed(_, _, _)
BatchBytesReversed(first, jsonl, b) ==
    IF b = <<>> THEN <<>>
    ELSE ItemBytes(first, jsonl, b[Len(b)])
             \o BatchBytesReversed(FALSE, jsonl, SubSeq(b, 1, Len(b) - 1))

\* What `for item in batch` appends for the items of b, from flag `first`.
RECURSIVE BatchBytes(_, _, _)
BatchBytes(first, jsonl, b) ==
    IF b = <<>> THEN <<>>
    ELSE ItemBytes(first, jsonl, Head(b)) \o BatchBytes(FALSE, jsonl, Tail(b))

\* `for item in batch`: for every item the separator unless first_item, then
\* json.dumps(item); then queue.task_done().
WriterWrite ==
    /\ wpc = "write"
    /\ files' = [files EXCEPT ![Len(files)] =
                    @ \o BatchBytes(first_item, use_jsonl, wbatch)]
    /\ first_item' = FALSE
    /\ wbatch' = <<>>
    /\ wpc' = "get"
    /\ UNCHANGED <<use_jsonl, epc, nranges, fst, hand, ntrips, fetched,
                   nextId, queue, container_ru, total_ru>>
    /\ UNCHANGED <<queries, pages, sentinels, sibVars>>
    /\ UNCHANGED importVars

\* A file I/O error: aiofiles.open raises (no file is created).
WriterFailOpen ==
    /\ wpc = "start"
    /\ wpc' = "failed"
    /\ UNCHANGED <<use_jsonl, epc, nranges, fst, hand, ntrips, fetched,
                   nextId, queue, wbatch, first_item, files, container_ru, total_ru>>
    /\ UNCHANGED <<queries, pages, sentinels, sibVars>>
    /\ UNCHANGED importVars

\* A file I/O error: an f.write of the loop raises after j items of the
\* batch were written; `async with` closes the file as it is.
WriterFailWrite(j) ==
    /\ wpc = "write"
    /\ j < Len(wbatch)
    /\ files' = [files EXCEPT ![Len(files)] =
                    @ \o BatchBytes(first_item, use_jsonl, SubSeq(wbatch, 1, j))]
    /\ first_item' = (first_item /\ j = 0)
    /\ wbatch' = SubSeq(wbatch, j + 1, Len(wbatch))
    /\ wpc' = "failed"
    /\ UNCHANGED <<use_jsonl, epc, nranges, fst, hand, ntrips, fetched,
                   nextId, queue, container_ru, total_ru>>
    /\ UNCHANGED <<queries, pages, sentinels, sibVars>>
    /\ UNCHANGED importVars

\* ---------------------------------------------------------------- fetch_range
\* One round trip of query_iterable.by_page(): a page of k items; the
\* response hook adds the charge to both totals.  An empty page is skipped.
FetchPage(r, k) ==
    /\ epc = "gather"
    /\ fst[r] = "fetching"
    /\ ntrips < MaxTrips
    /\ nextId + k - 1 <= MaxItems
    /\ ntrips' = ntrips + 1
    /\ nextId' = nextId + k
    /\ fetched' = [fetched EXCEPT ![r] = @ \o FreshPage(k)]
    /\ container_ru' = Hook(container_ru, Charge(k))
    /\ total_ru' = Hook(total_ru, Charge(k))
    /\ IF k > 0
       THEN /\ hand' = [hand EXCEPT ![r] = FreshPage(k)]
            /\ fst' = [fst EXCEPT ![r] = "putting"]
            /\ pages' = Append(pages, [range |-> r, items |-> FreshPage(k)])
       ELSE UNCHANGED <<hand, fst, pages>>
    /\ UNCHANGED <<use_jsonl, epc, nranges, queue, wpc, wbatch,
                   first_item, files>>
    /\ UNCHANGED <<queries, sentinels, sibVars>>
    /\ UNCHANGED importVars

\* await queue.put(items): suspended while the queue is full.
PutBatch(r) ==
    /\ epc = "gather"
    /\ fst[r] = "putting"
    /\ Len(queue) < QueueMaxsize
    /\ queue' = Append(queue, hand[r])
    /\ hand' = [hand EXCEPT ![r] = <<>>]
    /\ fst' = [fst EXCEPT ![r] = "fetching"]
    /\ UNCHANGED <<use_jsonl, epc, nranges, ntrips, fetched, nextId,
                   wpc, wbatch, first_item, files, container_ru, total_ru>>
    /\ UNCHANGED <<queries, pages, sentinels, sibVars>>
    /\ UNCHANGED importVars

\* The range is exhausted: fetch_range returns range_count.
FetchEnd(r) ==
    /\ epc = "gather"
    /\ fst[r] = "fetching"
    /\ fst' = [fst EXCEPT ![r] = "done"]
    /\ UNCHANGED <<use_jsonl, epc, nranges, hand, ntrips, fetched,
                   nextId, queue, wpc, wbatch, first_item, files, container_ru,
                   total_ru>>
    /\ UNCHANGED <<queries, pages, sentinels, sibVars>>
    /\ UNCHANGED importVars

\* FetchErrorCaught of a fetch_range without its except branch: the exception
\* reaches the caller, and the other fetchers are stopped where they are.
FetchErrorCancelsAll(st, r) ==
    [x \in Ranges |-> IF st[x] \in {"fetching", "putting"} THEN "failed" ELSE st[x]]

\* `except Exception as e: logger.error(...)` of fetch_range: the fetcher of
\* range r has ended, the others are as they were.
FetchErrorCaught(st, r) == [st EXCEPT ![r] = "failed"]

\* A round trip raises: logged, fetch_range returns what it counted so far.
FetchFail(r) ==
    /\ epc = "gather"
    /\ fst[r] = "fetching"
    /\ fst' = FetchErrorCaught(fst, r)
    /\ UNCHANGED <<use_jsonl, epc, nranges, hand, ntrips, fetched,
                   nextId, queue, wpc, wbatch, first_item, files, container_ru,
                   total_ru>>
    /\ UNCHANGED <<queries, pages, sentinels, sibVars>>
    /\ UNCHANGED importVars

\* ---------------------------------------------------------------- export_container
\* StartedRanges of a loop that awaits each fetch_range before the next is
\* created: only the first runs.
StartedFirstOnly(n) ==
    [r \in Ranges |-> IF r <= n /\ r = 1 THEN "fetching" ELSE "idle"]

\* range_tasks = [fetch_range(r) for r in pk_ranges] under asyncio.gather:
\* every fetcher runs to its first round trip, query_items called.
StartedRanges(n) == [r \in Ranges |-> IF r <= n THEN "fetching" ELSE "idle"]

\* pk_ranges = [r async for r in read_feed_ranges()], then gather starts one
\* fetch_range per range.
EnumOk(n) ==
    /\ epc = "enum"
    /\ nranges' = n
    /\ fst' = StartedRanges(n)
    /\ queries' = [r \in Ranges |-> IF fst'[r] = "fetching" THEN 1 ELSE 0]
    /\ epc' = "gather"
    /\ UNCHANGED <<use_jsonl, hand, ntrips, fetched, nextId, queue,
                   wpc, wbatch, first_item, files, container_ru, total_ru>>
    /\ UNCHANGED <<pages, sentinels, sibVars>>
    /\ UNCHANGED importVars

\* OnException of an export_container without its except branch: the
\* exception leaves the coroutine.
OnExceptionRaised == "raised"

\* Where `except Exception as e: logger.error(...)` of export_container leaves
\* the coroutine: it has logged and returns.
OnException == "done_err"

\* What becomes of the sibling's export_container when this one ends in
\* state e: an exception that leaves export_container leaves export_cmd at
\* `await coro`, and asyncio.run cancels the tasks still running.
SiblingAfter(e) == IF e = "raised" /\ sib = "running" THEN "cancelled" ELSE sib

\* read_feed_ranges raises: the except branch logs and cancels the writer
\* task, which is waiting in queue.get() or has not run yet.
EnumFail ==
    /\ epc = "enum"
    /\ epc' = OnException
    /\ sib' = SiblingAfter(epc')
    /\ wpc' = IF wpc \in {"start", "get"} THEN "cancelled" ELSE wpc
    /\ UNCHANGED <<use_jsonl, nranges, fst, hand, ntrips, fetched,
                   nextId, queue, wbatch, first_item, files, container_ru, total_ru>>
    /\ UNCHANGED <<queries, pages, sentinels, sibling_ru>>
    /\ UNCHANGED importVars

\* Gathered of a wait that returns at the first fetcher to return.
GatheredFirst(st, n) == \E r \in 1..n : st[r] \in {"done", "failed"}

\* asyncio.gather(*range_tasks) is complete: each of the n fetchers has
\* returned (fetch_range catches its own exceptions).
Gathered(st, n) == \A r \in 1..n : st[r] \in {"done", "failed"}

\* results = await asyncio.gather(*range_tasks) returns once every fetcher
\* has returned.
GatherDone ==
    /\ epc = "gather"
    /\ Gathered(fst, nranges)
    /\ epc' = "put_none"
    /\ UNCHANGED <<use_jsonl, nranges, fst, hand, ntrips, fetched,
                   nextId, queue, wpc, wbatch, first_item, files, container_ru,
                   total_ru>>
    /\ UNCHANGED <<queries, pages, sentinels, sibVars>>
    /\ UNCHANGED importVars

\* await queue.put(None)
PutNone ==
    /\ epc = "put_none"
    /\ Len(queue) < QueueMaxsize
    /\ queue' = Append(queue, NoneBatch)
    /\ sentinels' = sentinels + 1
    /\ epc' = "await_writer"
    /\ UNCHANGED <<use_jsonl, nranges, fst, hand, ntrips, fetched,
                   nextId, wpc, wbatch, first_item, files, container_ru, total_ru>>
    /\ UNCHANGED <<queries, pages, sibVars>>
    /\ UNCHANGED importVars

\* await writer_task: returns when the writer has closed the file, raises
\* what the writer raised (the except branch logs, cancel() is then a no-op).
AwaitWriter ==
    /\ epc = "await_writer"
    /\ wpc \in {"closed", "failed"}
    /\ epc' = IF wpc = "closed" THEN "done_ok" ELSE OnException
    /\ sib' = SiblingAfter(epc')
    /\ UNCHANGED <<use_jsonl, nranges, fst, hand, ntrips, fetched,
                   nextId, queue, wpc, wbatch, first_item, files, container_ru,
                   total_ru>>
    /\ UNCHANGED <<queries, pages, sentinels, sibling_ru>>
    /\ UNCHANGED importVars

\* export_cmd found a second collection: its export_container runs too.
WithSibling ==
    /\ sib = "running"
    /\ sibling_ru = 0

\* The sibling's export_container, an empty collection of one range, from
\* start to return: one round trip whose charge the hook adds to the
\* sibling's total and to the global one, and its file written and closed.
SiblingExport ==
    /\ sib = "running"
    /\ epc /= "raised"
    /\ sib' = "done"
    /\ sibling_ru' = Hook(sibling_ru, Charge(0))
    /\ total_ru' = Hook(total_ru, Charge(0))
    /\ UNCHANGED <<use_jsonl, epc, nranges, fst, hand, ntrips, fetched, nextId, queue,
                   wpc, wbatch, first_item, files, container_ru, queries, pages,
                   sentinels>>
    /\ UNCHANGED importVars

ExportStep ==
    \/ WriterOpen
    \/ WriterGet
    \/ WriterWrite
    \/ WriterFailOpen
    \/ \E j \in 0..MaxItems : WriterFailWrite(j)
    \/ \E r \in Ranges, k \in 0..MaxItems : FetchPage(r, k)
    \/ \E r \in Ranges : PutBatch(r)
    \/ \E r \in Ranges : FetchEnd(r)
    \/ \E r \in Ranges : FetchFail(r)
    \/ \E n \in 0..MaxRanges : EnumOk(n)
    \/ EnumFail
    \/ GatherDone
    \/ PutNone
    \/ AwaitWriter

\* ---------------------------------------------------------------- streaming parser
\* bytes.isspace() on the characters an export file holds.
IsSpace(ch) == ch = "\n"

\* The index of the first character of c at or after i that is not white
\* space; Len(c) + 1 when there is none.
RECURSIVE SkipSpace(_, _)
SkipSpace(c, i) ==
    IF i > Len(c) THEN Len(c) + 1
    ELSE IF IsSpace(c[i]) THEN SkipSpace(c, i + 1) ELSE i

\* import_file's sniff loop: the first character that is not white space,
\* "" when the file has none.
FirstChar(c) == IF SkipSpace(c, 1) > Len(c) THEN "" ELSE c[SkipSpace(c, 1)]

Digits == {ToString(i) : i \in 1..9}

\* A serialized item starts at index i of c.
IsValueAt(c, i) ==
    /\ i + 2 <= Len(c)
    /\ c[i] = "{"
    /\ c[i + 1] \in Digits
    /\ c[i + 2] = "}"

\* The item whose serialization starts at index i of c.
ValueAt(c, i) == CHOOSE d \in 1..9 : ToString(d) = c[i + 1]

\* ijson.items(f, "", multiple_values=True) from index i: the items yielded
\* and whether the parse then raised.
RECURSIVE ParseMulti(_, _, _)
ParseMulti(c, i, acc) ==
    LET j == SkipSpace(c, i) IN
    IF j > Len(c) THEN [items |-> acc, err |-> FALSE]
    ELSE IF IsValueAt(c, j) THEN ParseMulti(c, j + 3, Append(acc, ValueAt(c, j)))
    ELSE [items |-> acc, err |-> TRUE]

\* ijson.items(f, "item") after the closing "]" at index i - 1: anything but
\* white space is additional data.
ParseArrayEnd(c, i, acc) ==
    [items |-> acc, err |-> SkipSpace(c, i) <= Len(c)]

\* ijson.items(f, "item") inside the array from index i; `first` while no
\* element has been read (only then may "]" follow directly).
RECURSIVE ParseArrayElems(_, _, _, _)
ParseArrayElems(c, i, acc, first) ==
    LET j == SkipSpace(c, i) IN
    IF j > Len(c) THEN [items |-> acc, err |-> TRUE]
    ELSE IF first /\ c[j] = "]" THEN ParseArrayEnd(c, j + 1, acc)
    ELSE IF ~IsValueAt(c, j) THEN [items |-> acc, err |-> TRUE]
    ELSE LET got == Append(acc, ValueAt(c, j))
             k == SkipSpace(c, j + 3)
         IN IF k > Len(c) THEN [items |-> got, err |-> TRUE]
            ELSE IF c[k] = "]" THEN ParseArrayEnd(c, k + 1, got)
            ELSE IF c[k] = "," THEN ParseArrayElems(c, k + 1, got, FALSE)
            ELSE [items |-> got, err |-> TRUE]

\* The parser import_file picks from the sniffed character, run over the
\* whole file: "[" selects the array parser, anything else the
\* multiple-values parser.
ParseFile(c) ==
    IF FirstChar(c) = "["
    THEN ParseArrayElems(c, SkipSpace(c, 1) + 1, <<>>, TRUE)
    ELSE ParseMulti(c, 1, <<>>)

\* ---------------------------------------------------------------- import inputs
\* The containers of the target database, named as collections are (see NameOf).
Containers == {<<"foo">>}

\* indexingMode values; create_container_if_not_exists asks for "none".
Modes == {"none", "consistent"}

\* original_indexing_policy = None
NoPolicy == "None"

\* What the writer leaves in a file it finalizes with these records.
FileOf(jsonl, recs) ==
    OpenDelim(jsonl) \o BatchBytes(TRUE, jsonl, recs) \o CloseDelim(jsonl)

\* The files an import job may name: complete export files of 0..MaxFileItems
\* items in either encoding, and the same cut short by one character.
ImportFiles ==
    LET whole == {FileOf(j, [i \in 1..n |-> i]) : j \in BOOLEAN, n \in 0..MaxFileItems}
    IN whole \cup {SubSeq(c, 1, Len(c) - 1) : c \in whole}

\* Job discovery is not looked at.
DiscoverIdle ==
    /\ dir = {}
    /\ path = <<>>
    /\ from_container = <<>>
    /\ target_container = <<>>
    /\ files_to_import = <<>>
    /\ dpc = "off"

\* No import_file call is running: its locals do not exist.
NoLocals ==
    /\ container_name = <<"foo">>
    /\ original_indexing_policy = NoPolicy
    /\ items = <<>>
    /\ perr = FALSE
    /\ parsed = <<>>
    /\ shuffle_buffer = <<>>
    /\ flush = <<>>
    /\ submitted = <<>>
    /\ items_imported = 0
    /\ items_failed = 0

\* No import runs.
ImportOff ==
    /\ concurrency = 0
    /\ shuffle = FALSE
    /\ cexists = [c \in Containers |-> FALSE]
    /\ policy = [c \in Containers |-> "none"]
    /\ docs = [c \in Containers |-> {}]
    /\ cexists0 = cexists
    /\ policy0 = policy
    /\ ipc = "off"
    /\ waiting = FALSE
    /\ jidx = 0
    /\ nread = 0
    /\ NoLocals
    /\ tasks = <<>>
    /\ semaphore = 0
    /\ replace_calls = {}
    /\ import_ru = 0
    /\ import_errors = 0

ImportIdle == ImportOff /\ DiscoverIdle

\* import_cmd up to the `for container_name, file_path in files_to_import`
\* loop: the semaphore is created once for the run.
ImportInit ==
    /\ concurrency \in 0..MaxConcurrency
    /\ shuffle \in BOOLEAN
    /\ cexists \in [Containers -> BOOLEAN]
    /\ policy \in [Containers -> Modes]
    /\ \A c \in Containers : ~cexists[c] => policy[c] = "none"
    /\ docs = [c \in Containers |-> {}]
    /\ cexists0 = cexists
    /\ policy0 = policy
    /\ ipc = "next"
    /\ waiting = FALSE
    /\ jidx = 0
    /\ nread = 0
    /\ NoLocals
    /\ tasks = <<>>
    /\ semaphore = concurrency
    /\ replace_calls = {}
    /\ import_ru = 0
    /\ import_errors = 0
    /\ DiscoverIdle

\* ---------------------------------------------------------------- import_file
\* The indices in ts of the current job's tasks: active_tasks.
ActiveTasks(ts) == {i \in 1..Len(ts) : ts[i].job = jidx}

\* process_item: create the upsert task, add it to active_tasks, and wait
\* for a first completion when len(active_tasks) >= args.concurrency + 20.
ProcessItem(item) ==
    LET ts == Append(tasks, [job |-> jidx, cont |-> container_name, item |-> item,
                             st |-> "waiting"]) IN
    /\ tasks' = ts
    /\ submitted' = Append(submitted, item)
    /\ waiting' = (Cardinality(ActiveTasks(ts)) >= concurrency + TaskSlack)

\* import_file returns: its locals are gone.
ReturnFromImportFile ==
    /\ ipc' = "next"
    /\ container_name' = <<"foo">>
    /\ original_indexing_policy' = NoPolicy
    /\ items' = <<>>
    /\ perr' = FALSE
    /\ parsed' = <<>>
    /\ shuffle_buffer' = <<>>
    /\ flush' = <<>>
    /\ submitted' = <<>>
    /\ items_imported' = 0
    /\ items_failed' = 0

\* The next (container_name, file_path) of files_to_import: import_file
\* starts and awaits create_container_if_not_exists.
StartJob(c) ==
    /\ ipc = "next"
    /\ jidx < MaxJobs
    /\ jidx' = jidx + 1
    /\ container_name' = c
    /\ ipc' = "create"
    /\ UNCHANGED <<nread, cfgVars, dbVars, waiting, original_indexing_policy, items, perr,
                   parsed, shuffle_buffer, flush, submitted, items_imported, items_failed, tasks,
                   semaphore, replace_calls, import_ru, import_errors>>
    /\ UNCHANGED exportVars

\* CreatedMode of a call that imposes the requested policy on a container
\* that is already there.
CreatedModeForced(exists, mode) == "none"

\* What create_container_if_not_exists(indexing_policy={"indexingMode": "none"})
\* leaves as the container's indexingMode: an absent container is created
\* with none, an existing one keeps its own.
CreatedMode(exists, mode) == IF exists THEN mode ELSE "none"

\* create_container_if_not_exists returns.
CreateOk ==
    /\ ipc = "create"
    /\ cexists' = [cexists EXCEPT ![container_name] = TRUE]
    /\ policy' = [policy EXCEPT ![container_name] =
                     CreatedMode(cexists[container_name], @)]
    /\ ipc' = "capture"
    /\ UNCHANGED <<nread, cfgVars, docs, waiting, jidx, localVars, tasks, semaphore,
                   replace_calls, import_ru, import_errors>>
    /\ UNCHANGED exportVars

\* create_container_if_not_exists raises: a warning, the import goes on.
CreateFail ==
    /\ ipc = "create"
    /\ ipc' = "capture"
    /\ UNCHANGED <<nread, cfgVars, dbVars, waiting, jidx, localVars, tasks, semaphore,
                   replace_calls, import_ru, import_errors>>
    /\ UNCHANGED exportVars

\* get_container_properties returns: the indexing policy is captured.
CaptureOk ==
    /\ ipc = "capture"
    /\ cexists[container_name]
    /\ original_indexing_policy' = policy[container_name]
    /\ ipc' = "open"
    /\ UNCHANGED <<nread, cfgVars, dbVars, waiting, jidx, container_name, items, perr, parsed,
                   shuffle_buffer, flush, submitted, items_imported, items_failed, tasks, semaphore,
                   replace_calls, import_ru, import_errors>>
    /\ UNCHANGED exportVars

\* get_container_properties raises: a warning, nothing is captured.
CaptureFail ==
    /\ ipc = "capture"
    /\ ipc' = "open"
    /\ UNCHANGED <<nread, cfgVars, dbVars, waiting, jidx, localVars, tasks, semaphore,
                   replace_calls, import_ru, import_errors>>
    /\ UNCHANGED exportVars

\* open(file_path, "rb"), the sniff and ijson.items over content c.  An
\* input without any value is either an empty stream or an incomplete one
\* to the multiple-values parser.
OpenFile(c) ==
    /\ ipc = "open"
    /\ nread + Len(ParseFile(c).items) <= MaxFileItems
    /\ nread' = nread + Len(ParseFile(c).items)
    /\ items' = ParseFile(c).items
    /\ perr' \in (IF FirstChar(c) = "" THEN BOOLEAN ELSE {ParseFile(c).err})
    /\ ipc' = "parse"
    /\ UNCHANGED <<cfgVars, dbVars, waiting, jidx, container_name,
                   original_indexing_policy, parsed, shuffle_buffer, flush, submitted,
                   items_imported, items_failed, tasks, semaphore, replace_calls, import_ru,
                   import_errors>>
    /\ UNCHANGED exportVars

\* open raises: the outer except logs and import_file returns.
OpenFail ==
    /\ ipc = "open"
    /\ ReturnFromImportFile
    /\ import_errors' = import_errors + 1
    /\ UNCHANGED <<nread, cfgVars, dbVars, waiting, jidx, tasks, semaphore, replace_calls,
                   import_ru>>
    /\ UNCHANGED exportVars

\* Pop that reads the element and leaves it in the buffer.
PopKept(buf, idx) == buf

\* shuffle_buffer.pop(idx)
Pop(buf, idx) == SubSeq(buf, 1, idx - 1) \o SubSeq(buf, idx + 1, Len(buf))

\* ReservoirFull of a test with > for >=: one more item is held back.
ReservoirFullLate(buf) == Len(buf) > SHUFFLE_BUFFER_SIZE

\* `len(shuffle_buffer) >= SHUFFLE_BUFFER_SIZE`
ReservoirFull(buf) == Len(buf) >= SHUFFLE_BUFFER_SIZE

\* ParseItem with the test of args.shuffle lost: every item goes through the
\* shuffle buffer.
ParseItemShuffling(idx) ==
    /\ ipc = "parse"
    /\ ~waiting
    /\ items /= <<>>
    /\ items' = Tail(items)
    /\ parsed' = Append(parsed, Head(items))
    /\ LET buf == Append(shuffle_buffer, Head(items)) IN
       IF Len(buf) >= SHUFFLE_BUFFER_SIZE
       THEN /\ idx \in 1..Len(buf)
            /\ shuffle_buffer' = Pop(buf, idx)
            /\ ProcessItem(buf[idx])
       ELSE /\ idx = 1
            /\ shuffle_buffer' = buf
            /\ UNCHANGED <<tasks, submitted, waiting>>
    /\ UNCHANGED <<nread, cfgVars, dbVars, ipc, jidx, container_name,
                   original_indexing_policy, perr, flush, items_imported, items_failed, semaphore,
                   replace_calls, import_ru, import_errors>>
    /\ UNCHANGED exportVars

\* One pass of `for item in items`; idx is random.randrange(len(shuffle_buffer)) + 1.
ParseItem(idx) ==
    /\ ipc = "parse"
    /\ ~waiting
    /\ items /= <<>>
    /\ items' = Tail(items)
    /\ parsed' = Append(parsed, Head(items))
    /\ IF shuffle
       THEN LET buf == Append(shuffle_buffer, Head(items)) IN
            IF ReservoirFull(buf)
            THEN /\ idx \in 1..Len(buf)
                 /\ shuffle_buffer' = Pop(buf, idx)
                 /\ ProcessItem(buf[idx])
            ELSE /\ idx = 1
                 /\ shuffle_buffer' = buf
                 /\ UNCHANGED <<tasks, submitted, waiting>>
       ELSE /\ idx = 1
            /\ shuffle_buffer' = shuffle_buffer
            /\ ProcessItem(Head(items))
    /\ UNCHANGED <<nread, cfgVars, dbVars, ipc, jidx, container_name,
                   original_indexing_policy, perr, flush, items_imported, items_failed, semaphore,
                   replace_calls, import_ru, import_errors>>
    /\ UNCHANGED exportVars

\* The parser raises: the outer except logs and import_file returns; the
\* tasks created so far stay scheduled, the shuffle buffer is dropped.
ParseError ==
    /\ ipc = "parse"
    /\ ~waiting
    /\ items = <<>>
    /\ perr
    /\ ReturnFromImportFile
    /\ import_errors' = import_errors + 1
    /\ UNCHANGED <<nread, cfgVars, dbVars, waiting, jidx, tasks, semaphore, replace_calls,
                   import_ru>>
    /\ UNCHANGED exportVars

\* The sequences that hold the elements of s in some order.
Shufflings(s) ==
    {[i \in 1..Len(s) |-> s[f[i]]] :
        f \in {g \in [1..Len(s) -> 1..Len(s)] :
                  \A a, b \in 1..Len(s) : a /= b => g[a] /= g[b]}}

\* ParseEnd without the flush of what the reservoir still holds.
ParseEndDropsReservoir(p) ==
    /\ ipc = "parse"
    /\ ~waiting
    /\ items = <<>>
    /\ ~perr
    /\ p \in Shufflings(shuffle_buffer)
    /\ shuffle_buffer' = p
    /\ flush' = <<>>
    /\ ipc' = "flush"
    /\ UNCHANGED <<nread, cfgVars, dbVars, waiting, jidx, container_name,
                   original_indexing_policy, items, perr, parsed, submitted,
                   items_imported, items_failed, tasks, semaphore, replace_calls, import_ru,
                   import_errors>>
    /\ UNCHANGED exportVars

\* The parser is exhausted: random.shuffle(shuffle_buffer), p the outcome.
ParseEnd(p) ==
    /\ ipc = "parse"
    /\ ~waiting
    /\ items = <<>>
    /\ ~perr
    /\ p \in Shufflings(shuffle_buffer)
    /\ shuffle_buffer' = p
    /\ flush' = p
    /\ ipc' = "flush"
    /\ UNCHANGED <<nread, cfgVars, dbVars, waiting, jidx, container_name,
                   original_indexing_policy, items, perr, parsed, submitted,
                   items_imported, items_failed, tasks, semaphore, replace_calls, import_ru,
                   import_errors>>
    /\ UNCHANGED exportVars

\* One pass of the flush loop `for item in shuffle_buffer`.
FlushItem ==
    /\ ipc = "flush"
    /\ ~waiting
    /\ flush /= <<>>
    /\ flush' = Tail(flush)
    /\ ProcessItem(Head(flush))
    /\ UNCHANGED <<nread, cfgVars, dbVars, ipc, jidx, container_name,
                   original_indexing_policy, items, perr, parsed, shuffle_buffer,
                   items_imported, items_failed, semaphore, replace_calls, import_ru,
                   import_errors>>
    /\ UNCHANGED exportVars

\* The flush loop is over: `if active_tasks: await asyncio.gather(*active_tasks)`.
FlushEnd ==
    /\ ipc = "flush"
    /\ ~waiting
    /\ flush = <<>>
    /\ ipc' = "gather"
    /\ UNCHANGED <<nread, cfgVars, dbVars, waiting, jidx, localVars, tasks, semaphore,
                   replace_calls, import_ru, import_errors>>
    /\ UNCHANGED exportVars

\* ShouldRestore without the test of the captured mode.
ShouldRestoreAny(orig) == orig /= NoPolicy

\* `original_indexing_policy and original_indexing_policy.get("indexingMode") != "none"`
ShouldRestore(orig) == orig /= NoPolicy /\ orig /= "none"

\* GatherReturns of an import_file that does not await its tasks.
GatherReturnsAtOnce(ts) == TRUE

\* `if active_tasks: await asyncio.gather(*active_tasks)` is over: no task of
\* the job is left that has not completed.
GatherReturns(ts) == ActiveTasks(ts) = {}

\* gather returns once every task of the job has completed and the count is
\* logged; with nothing to restore import_file returns.
GatherEnd ==
    /\ ipc = "gather"
    /\ GatherReturns(tasks)
    /\ IF ShouldRestore(original_indexing_policy)
       THEN /\ ipc' = "restore"
            /\ UNCHANGED localVars
       ELSE ReturnFromImportFile
    /\ UNCHANGED <<nread, cfgVars, dbVars, waiting, jidx, tasks, semaphore, replace_calls,
                   import_ru, import_errors>>
    /\ UNCHANGED exportVars

\* What db.replace_container(container_name, original_indexing_policy)
\* leaves as the container's indexingMode when it returns.
ReplacedMode(orig, mode) == orig

\* db.replace_container returns; import_file returns.
RestoreOk ==
    /\ ipc = "restore"
    /\ cexists[container_name]
    /\ policy' = [policy EXCEPT ![container_name] =
                     ReplacedMode(original_indexing_policy, @)]
    /\ replace_calls' = replace_calls \cup {container_name}
    /\ ReturnFromImportFile
    /\ UNCHANGED <<nread, cfgVars, cexists, docs, waiting, jidx, tasks, semaphore, import_ru, import_errors>>
    /\ UNCHANGED exportVars

\* db.replace_container raises: logged, the policy stays as it is.
RestoreFail ==
    /\ ipc = "restore"
    /\ replace_calls' = replace_calls \cup {container_name}
    /\ ReturnFromImportFile
    /\ import_errors' = import_errors + 1
    /\ UNCHANGED <<nread, cfgVars, dbVars, waiting, jidx, tasks, semaphore, import_ru>>
    /\ UNCHANGED exportVars

\* files_to_import is exhausted: the client is closed.
JobsEnd ==
    /\ ipc = "next"
    /\ jidx >= 1
    /\ ipc' = "closing"
    /\ UNCHANGED <<nread, cfgVars, dbVars, waiting, jidx, localVars, tasks, semaphore,
                   replace_calls, import_ru, import_errors>>
    /\ UNCHANGED exportVars

\* The upserts in flight at the store.
InFlight(ts) == {i \in 1..Len(ts) : ts[i].st = "inflight"}

\* import_cmd returns: asyncio.run cancels the tasks still pending, and each
\* leaves its `async with semaphore`.
ImportReturn ==
    /\ ipc = "closing"
    /\ ipc' = "finished"
    /\ tasks' = <<>>
    /\ semaphore' = semaphore + Cardinality(InFlight(tasks))
    /\ UNCHANGED <<nread, cfgVars, dbVars, waiting, jidx, localVars, replace_calls, import_ru, import_errors>>
    /\ UNCHANGED exportVars

\* ---------------------------------------------------------------- upsert_with_semaphore
\* The main coroutine is suspended in an await, so the event loop runs tasks.
MainSuspended == waiting \/ ipc \in {"create", "capture", "gather", "restore", "closing"}

\* ts without its i-th task.
Without(ts, i) == SubSeq(ts, 1, i - 1) \o SubSeq(ts, i + 1, Len(ts))

\* CanAcquire of a gate that admits every task.
CanAcquireAlways(sem) == TRUE

\* semaphore.acquire() has a free slot.
CanAcquire(sem) == sem > 0

\* `async with semaphore` entered by task i, the first still waiting (tasks
\* start, and the semaphore wakes its waiters, in creation order): the
\* upsert is issued.
Acquire(i) ==
    /\ MainSuspended
    /\ i \in 1..Len(tasks)
    /\ tasks[i].st = "waiting"
    /\ \A k \in 1..(i - 1) : tasks[k].st /= "waiting"
    /\ CanAcquire(semaphore)
    /\ semaphore' = semaphore - 1
    /\ tasks' = [tasks EXCEPT ![i].st = "inflight"]
    /\ UNCHANGED <<nread, cfgVars, dbVars, ipc, waiting, jidx, localVars, replace_calls,
                   import_ru, import_errors>>
    /\ UNCHANGED exportVars

\* What leaving `async with semaphore` does to the value; ok tells whether
\* the upsert returned or raised.
Release(sem, ok) == sem + 1

\* Imported that counts whether or not upsert_item returned.
ImportedAlways(n, ok) == n + 1

\* items_imported after an upsert of the call's file: the increment follows
\* the await inside the try, so it is skipped when upsert_item raises.
Imported(n, ok) == IF ok THEN n + 1 ELSE n

\* upsert_item of task i returns: the item is stored in the container of the
\* task's import_file call, the hook adds the charge, that call's
\* items_imported is incremented (only the running call's is kept here), the
\* slot is released.
UpsertOk(i) ==
    /\ MainSuspended
    /\ i \in 1..Len(tasks)
    /\ tasks[i].st = "inflight"
    /\ cexists[tasks[i].cont]
    /\ docs' = [docs EXCEPT ![tasks[i].cont] = @ \cup {tasks[i].item}]
    /\ import_ru' = Hook(import_ru, Charge(1))
    /\ items_imported' = IF tasks[i].job = jidx /\ ipc /= "closing"
                         THEN Imported(items_imported, TRUE) ELSE items_imported
    /\ semaphore' = Release(semaphore, TRUE)
    /\ tasks' = Without(tasks, i)
    /\ waiting' = IF tasks[i].job = jidx THEN FALSE ELSE waiting
    /\ UNCHANGED <<nread, cfgVars, cexists, policy, ipc, jidx, container_name,
                   original_indexing_policy, items, perr, parsed, shuffle_buffer, flush,
                   submitted, items_failed, replace_calls, import_errors>>
    /\ UNCHANGED exportVars

\* upsert_item of task i raises: logged, the slot is released.
UpsertFail(i) ==
    /\ MainSuspended
    /\ i \in 1..Len(tasks)
    /\ tasks[i].st = "inflight"
    /\ semaphore' = Release(semaphore, FALSE)
    /\ tasks' = Without(tasks, i)
    /\ waiting' = IF tasks[i].job = jidx THEN FALSE ELSE waiting
    /\ import_errors' = import_errors + 1
    /\ items_imported' = IF tasks[i].job = jidx /\ ipc /= "closing"
                         THEN Imported(items_imported, FALSE) ELSE items_imported
    /\ items_failed' = IF tasks[i].job = jidx /\ ipc /= "closing"
                       THEN items_failed + 1 ELSE items_failed
    /\ UNCHANGED <<nread, cfgVars, dbVars, ipc, jidx, container_name,
                   original_indexing_policy, items, perr, parsed, shuffle_buffer, flush,
                   submitted, replace_calls, import_ru>>
    /\ UNCHANGED exportVars

\* The steps of import_file and of the upsert tasks that do not depend on
\* where the jobs and the file contents come from.
ImportFileStep ==
    \/ CreateOk
    \/ CreateFail
    \/ CaptureOk
    \/ CaptureFail
    \/ OpenFail
    \/ \E idx \in 1..SHUFFLE_BUFFER_SIZE : ParseItem(idx)
    \/ ParseError
    \/ \E p \in Shufflings(shuffle_buffer) : ParseEnd(p)
    \/ FlushItem
    \/ FlushEnd
    \/ GatherEnd
    \/ RestoreOk
    \/ RestoreFail
    \/ ImportReturn
    \/ \E i \in 1..Len(tasks) : Acquire(i)
    \/ \E i \in 1..Len(tasks) : UpsertOk(i)
    \/ \E i \in 1..Len(tasks) : UpsertFail(i)

\* An import whose jobs and file contents are arbitrary.
ImportStep ==
    \/ \E c \in Containers : StartJob(c)
    \/ \E c \in ImportFiles : OpenFile(c)
    \/ JobsEnd
    \/ ImportFileStep

\* ---------------------------------------------------------------- job discovery
\* File and collection names are sequences of name parts: foo_export_1.json
\* is <<"foo", "_export", "_", "1", ".", "json">>, collection foo is <<"foo">>.
NameOf(c, n, ext) ==
    c \o <<"_export">> \o (IF n = 0 THEN <<>> ELSE <<"_", ToString(n)>>) \o <<".", ext>>

\* The names a file of the import directory may have.
DirNames ==
    {NameOf(<<"foo">>, n, e) : n \in 0..MaxSuffix, e \in {"json", "jsonl", "txt"}}
        \cup {NameOf(<<"bar">>, 0, "jsonl"), <<"foo", ".", "json">>}

\* fnmatch of the base name against "*_export.*"
MatchesGlob(f) == \E i \in 1..(Len(f) - 1) : f[i] = "_export" /\ f[i + 1] = "."

\* f.endswith((".json", ".jsonl"))
EndsWithJson(f) ==
    /\ Len(f) >= 2
    /\ f[Len(f) - 1] = "."
    /\ f[Len(f)] \in {"json", "jsonl"}

\* os.path.basename(f).split("_export")[0]
SplitExport(f) ==
    LET at == {i \in 1..Len(f) : f[i] = "_export"} IN
    IF at = {} THEN f
    ELSE SubSeq(f, 1, (CHOOSE i \in at : \A k \in at : i <= k) - 1)

\* What one pass of `for f in glob.glob(pattern)` appends to files_to_import.
JobOf(f, from, target) ==
    LET original_container_name == SplitExport(f) IN
    IF ~EndsWithJson(f) THEN <<>>
    ELSE IF from /= <<>>
    THEN IF original_container_name /= from THEN <<>>
         ELSE <<[container |-> IF target /= <<>> THEN target
                               ELSE original_container_name,
                 file |-> f]>>
    ELSE IF target /= <<>>
    THEN IF original_container_name /= target THEN <<>>
         ELSE <<[container |-> original_container_name, file |-> f]>>
    ELSE <<[container |-> original_container_name, file |-> f]>>

\* files_to_import after the loop over the glob result `order`.
RECURSIVE DirJobs(_, _, _)
DirJobs(order, from, target) ==
    IF order = <<>> THEN <<>>
    ELSE JobOf(Head(order), from, target) \o DirJobs(Tail(order), from, target)

\* The orders glob.glob may return the names of S in.
Orders(S) ==
    {q \in [1..Cardinality(S) -> S] :
        \A a, b \in 1..Cardinality(S) : a /= b => q[a] /= q[b]}

\* import_cmd is called with a path and the two filters.
DiscoverInit ==
    /\ dir \in {d \in SUBSET DirNames : Cardinality(d) <= MaxDirFiles}
    /\ path \in {<<>>} \cup dir
    /\ from_container \in {<<>>, <<"foo">>}
    /\ target_container \in {<<>>, <<"foo">>, <<"baz">>}
    /\ files_to_import = <<>>
    /\ dpc = "discover"

\* `if not files_to_import: return`
AfterDiscovery(jobs) == IF jobs = <<>> THEN "nofiles" ELSE "jobs"

\* os.path.isfile(path): one job.
DiscoverFile ==
    /\ dpc = "discover"
    /\ path /= <<>>
    /\ files_to_import' =
           <<[container |-> IF target_container /= <<>> THEN target_container
                            ELSE SplitExport(path),
              file |-> path]>>
    /\ dpc' = "jobs"
    /\ UNCHANGED <<dir, path, from_container, target_container>>
    /\ UNCHANGED <<concurrency, shuffle, cexists0, policy0, dbVars, ipc, waiting, jidx,
                   nread, localVars, tasks, semaphore, replace_calls, import_ru, import_errors>>
    /\ UNCHANGED exportVars

\* os.path.isdir(path): the glob and the loop over its result.
DiscoverDir(order) ==
    /\ dpc = "discover"
    /\ path = <<>>
    /\ order \in Orders({f \in dir : MatchesGlob(f)})
    /\ files_to_import' = DirJobs(order, from_container, target_container)
    /\ dpc' = AfterDiscovery(files_to_import')
    /\ UNCHANGED <<dir, path, from_container, target_container>>
    /\ UNCHANGED <<concurrency, shuffle, cexists0, policy0, dbVars, ipc, waiting, jidx,
                   nread, localVars, tasks, semaphore, replace_calls, import_ru, import_errors>>
    /\ UNCHANGED exportVars

DiscoverStep ==
    \/ DiscoverFile
    \/ \E order \in Orders({f \in dir : MatchesGlob(f)}) : DiscoverDir(order)

\* ---------------------------------------------------------------- export, then import
\* file_path = os.path.join(output_dir, f"{name}_export.{ext}") for collection foo.
ExportFileName == NameOf(<<"foo">>, 0, IF use_jsonl THEN "jsonl" ELSE "json")

\* The same for the sibling collection, bar.
SiblingFileName == NameOf(<<"bar">>, 0, IF use_jsonl THEN "jsonl" ELSE "json")

\* export_cmd has returned, both collections exported, no fetcher and not the
\* writer having logged an error, and its locals are gone; import_cmd is
\* called on the output directory for collection foo (--from-container foo)
\* with concurrency n and shuffle sh, the target database holding no item:
\* collection foo is absent or, with ex, there with indexingMode mode.
ImportExported(n, sh, ex, mode) ==
    /\ epc = "done_ok"
    /\ \A r \in 1..nranges : fst[r] = "done"
    /\ nextId - 1 <= MaxRoundTripItems
    /\ sib = "done"
    /\ dpc = "off"
    /\ sibling_ru' = 0
    /\ ntrips' = 0
    /\ fetched' = [r \in Ranges |-> <<>>]
    /\ container_ru' = 0
    /\ total_ru' = 0
    /\ UNCHANGED <<use_jsonl, epc, nranges, fst, hand, nextId, queue, wpc, wbatch,
                   first_item, files, queries, sentinels, sib>>
    /\ pages' = <<>>
    /\ concurrency' = n
    /\ shuffle' = sh
    /\ cexists' = [c \in Containers |-> ex]
    /\ policy' = [c \in Containers |-> IF ex THEN mode ELSE "none"]
    /\ cexists0' = cexists'
    /\ policy0' = policy'
    /\ semaphore' = n
    /\ dir' = {ExportFileName, SiblingFileName}
    /\ path' = <<>>
    /\ from_container' = <<"foo">>
    /\ target_container' = <<>>
    /\ dpc' = "discover"
    /\ ipc' = "next"
    /\ UNCHANGED <<files_to_import, docs, waiting, jidx, nread, localVars, tasks,
                   replace_calls, import_ru, import_errors>>

\* The next job of files_to_import.
StartDiscoveredJob ==
    /\ dpc = "jobs"
    /\ jidx < Len(files_to_import)
    /\ StartJob(files_to_import[jidx + 1].container)

\* The job's file is the one the export wrote.
OpenExportedFile ==
    /\ jidx \in 1..Len(files_to_import)
    /\ files_to_import[jidx].file = ExportFileName
    /\ OpenFile(files[1])

\* files_to_import is exhausted.
DiscoveredJobsEnd ==
    /\ dpc = "jobs"
    /\ jidx = Len(files_to_import)
    /\ JobsEnd

RoundTripStep ==
    \/ ExportStep
    \/ SiblingExport
    \/ \E n \in 0..MaxConcurrency, sh, ex \in BOOLEAN, mode \in Modes :
           ImportExported(n, sh, ex, mode)
    \/ \E order \in Orders({f \in dir : MatchesGlob(f)}) : DiscoverDir(order)
    \/ StartDiscoveredJob
    \/ OpenExportedFile
    \/ DiscoveredJobsEnd
    \/ ImportFileStep

\* ---------------------------------------------------------------- specifications
\* One collection exported by export_container.
Init == ExportInit /\ NoSibling /\ ImportIdle

Next == ExportStep

Spec == Init /\ [][Next]_vars

\* Two collections exported by one export_cmd.
InitSiblings == ExportInit /\ WithSibling /\ ImportIdle

NextSiblings == ExportStep \/ SiblingExport

SpecSiblings == InitSiblings /\ [][NextSiblings]_vars

\* No export runs.
ExportIdle ==
    /\ use_jsonl = FALSE
    /\ epc = "off"
    /\ nranges = 0
    /\ fst = [r \in Ranges |-> "idle"]
    /\ hand = [r \in Ranges |-> <<>>]
    /\ ntrips = 0
    /\ fetched = [r \in Ranges |-> <<>>]
    /\ nextId = 1
    /\ queue = <<>>
    /\ wpc = "off"
    /\ wbatch = <<>>
    /\ first_item = TRUE
    /\ files = <<>>
    /\ container_ru = 0
    /\ total_ru = 0
    /\ queries = [r \in Ranges |-> 0]
    /\ pages = <<>>
    /\ sentinels = 0
    /\ NoSibling

\* One run of import_cmd over files_to_import.
InitImport == ExportIdle /\ ImportInit

NextImport == ImportStep

SpecImport == InitImport /\ [][NextImport]_vars

\* Job discovery of one import_cmd call.
InitDiscover == ExportIdle /\ ImportOff /\ DiscoverInit

NextDiscover == DiscoverStep

SpecDiscover == InitDiscover /\ [][NextDiscover]_vars

\* Two collections exported, and the output of the first imported.
NextRoundTrip == RoundTripStep

SpecRoundTrip == InitSiblings /\ [][NextRoundTrip]_vars

\* ---------------------------------------------------------------- properties
\* How often x occurs in sequence q.
Count(q, x) == Cardinality({i \in DOMAIN q : q[i] = x})

\* a and b hold the same items, each as often in one as in the other.
SameMultiset(a, b) ==
    /\ Len(a) = Len(b)
    /\ \A x \in 1..9 : Count(a, x) = Count(b, x)

\* fetched[1] \o ... \o fetched[n]
RECURSIVE FetchedUpTo(_)
FetchedUpTo(n) == IF n = 0 THEN <<>> ELSE FetchedUpTo(n - 1) \o fetched[n]

\* Every item a page fetch of the collection returned.
AllFetched == FetchedUpTo(MaxRanges)

\* The records of the first n output files, read back file by file.
RECURSIVE RecordsUpTo(_)
RecordsUpTo(n) ==
    IF n = 0 THEN <<>> ELSE RecordsUpTo(n - 1) \o ParseFile(files[n]).items

\* Every record the output files of the collection hold.
AllRecords == RecordsUpTo(Len(files))

\* The export ended without a logged error: no fetcher and not the writer.
ExportedClean ==
    /\ epc = "done_ok"
    /\ \A r \in 1..nranges : fst[r] = "done"

\* C1: when the fetchers and the writer of a collection all end without
\* error, the records in its output file(s) are, as a multiset, the items
\* the page fetches of its ranges returned: none lost, none written twice.
C1_NoLossNoDuplication ==
    ExportedClean =>
        /\ \A i \in 1..Len(files) : ~ParseFile(files[i]).err
        /\ SameMultiset(AllRecords, AllFetched)

\* Two fetchers both returned items, MaxItems in all, and the export ended clean.
C1_Witness ==
    /\ ExportedClean
    /\ nranges = 2
    /\ fetched[1] /= <<>>
    /\ fetched[2] /= <<>>
    /\ Len(AllRecords) >= 3

\* recs joined by sep: no separator before the first or after the last.
RECURSIVE Joined(_, _)
Joined(recs, sep) ==
    IF recs = <<>> THEN <<>>
    ELSE IF Len(recs) = 1 THEN Dumps(recs[1])
    ELSE Dumps(recs[1]) \o sep \o Joined(Tail(recs), sep)

\* The text of a finalized file holding recs, as the file format states it.
FormatText(jsonl, recs) ==
    IF jsonl THEN Joined(recs, <<"\n">>)
    ELSE <<"[", "\n">> \o Joined(recs, <<",", "\n">>) \o <<"\n", "]">>

\* C2: a file the writer finalized on the sentinel is exactly the opening
\* delimiter, its records joined by the separator, the closing delimiter
\* (array encoding), or its records one per line (newline-delimited), for
\* any number of records.
C2_DelimiterStructure ==
    wpc = "closed" =>
        \A i \in 1..Len(files) :
            /\ ~ParseFile(files[i]).err
            /\ files[i] = FormatText(use_jsonl, ParseFile(files[i]).items)

\* A finalized array file with at least two records.
C2_Witness ==
    /\ wpc = "closed"
    /\ ~use_jsonl
    /\ Len(files) = 1
    /\ Len(ParseFile(files[1]).items) >= 2

\* C3: with concurrency limit N the upserts in flight at the store are never
\* more than N, over all items and all jobs of the run, and every slot of the
\* gate is either free or held by an upsert in flight: a slot taken is given
\* back when its upsert returns or raises.
C3_InFlightBounded ==
    /\ Cardinality(InFlight(tasks)) <= concurrency
    /\ semaphore + Cardinality(InFlight(tasks)) = concurrency

\* The gate is full, N = 2 upserts are in flight and a third task waits.
C3_Witness ==
    /\ concurrency = 2
    /\ Cardinality(InFlight(tasks)) = 2
    /\ \E i \in 1..Len(tasks) : tasks[i].st = "waiting"

\* C4: a collection that existed before the run with a policy P other than
\* none has policy P when the run has ended, however many files went into it
\* and whether the capture and restore calls returned or raised.
C4_ExistingPolicyKept ==
    ipc = "finished" =>
        \A c \in Containers :
            (cexists0[c] /\ policy0[c] /= "none") => policy[c] = policy0[c]

\* A run of two files into an existing consistent collection has ended, with
\* a restore issued.
C4_Witness ==
    /\ ipc = "finished"
    /\ jidx >= 2
    /\ cexists0[<<"foo">>]
    /\ policy0[<<"foo">>] = "consistent"
    /\ <<"foo">> \in replace_calls

\* C5: a collection that did not exist before the run has indexingMode none
\* from its creation on, and no replace_container call is ever issued for it,
\* over every file imported into it.
C5_CreatedStaysDisabled ==
    \A c \in Containers :
        ~cexists0[c] =>
            /\ cexists[c] => policy[c] = "none"
            /\ c \notin replace_calls

\* The run created the collection, imported two files into it and has ended.
C5_Witness ==
    /\ ipc = "finished"
    /\ jidx >= 2
    /\ ~cexists0[<<"foo">>]
    /\ cexists[<<"foo">>]
    /\ docs[<<"foo">>] /= {}

\* C10: with shuffling on, once the parser has reached the end of a file and
\* the reservoir is flushed, the items handed to process_item are the items
\* the parser produced, each exactly once, for files shorter than, as long
\* as and longer than the reservoir.
C10_ShuffleIsPermutation ==
    (shuffle /\ ipc = "gather") => SameMultiset(submitted, parsed)

\* A file longer than the reservoir was handed on in another order.
C10_Witness ==
    /\ shuffle
    /\ ipc = "gather"
    /\ Len(parsed) > SHUFFLE_BUFFER_SIZE
    /\ submitted /= parsed

\* f is named <c>_export.<ext> or <c>_export_<n>.<ext> with ext json or jsonl.
IsExportName(f) ==
    \E c \in {<<"foo">>, <<"bar">>}, n \in 0..MaxSuffix, e \in {"json", "jsonl"} :
        f = NameOf(c, n, e)

\* The collection c of such a name.
CollectionOf(f) ==
    CHOOSE c \in {<<"foo">>, <<"bar">>} :
        \E n \in 0..MaxSuffix, e \in {"json", "jsonl"} : f = NameOf(c, n, e)

\* Discovery of a directory without filters is over.
DiscoveredUnfiltered ==
    /\ dpc \in {"jobs", "nofiles"}
    /\ path = <<>>
    /\ from_container = <<>>
    /\ target_container = <<>>

\* C6: directory discovery without filters gives exactly one job for every
\* file named <c>_export.<ext> or <c>_export_<n>.<ext>, ext json or jsonl,
\* and that job targets collection c.
C6_EveryExportFileIsAJob ==
    DiscoveredUnfiltered =>
        \A f \in dir :
            IsExportName(f) =>
                /\ Cardinality({j \in 1..Len(files_to_import) :
                                   files_to_import[j].file = f}) = 1
                /\ \A j \in 1..Len(files_to_import) :
                       files_to_import[j].file = f =>
                           files_to_import[j].container = CollectionOf(f)

\* The bytes json.dumps gives the items of q in all.
RECURSIVE SerializedSize(_)
SerializedSize(q) ==
    IF q = <<>> THEN 0 ELSE Len(Dumps(Head(q))) + SerializedSize(Tail(q))

\* C7: with a max-file-size smaller than the total serialized size of the
\* collection's items (two items or more), a clean export leaves more than
\* one output file, each valid in its encoding; stated for every such size.
C7_SmallThresholdSplits ==
    (ExportedClean /\ Len(AllFetched) >= 2) =>
        \A max_file_size \in 1..(SerializedSize(AllFetched) - 1) :
            /\ Len(files) > 1
            /\ \A i \in 1..Len(files) : ~ParseFile(files[i]).err

\* C8: with a size threshold set, a file whose records alone are larger than
\* the threshold holds a single record; stated for every threshold.
C8_OverThresholdOnlySingleRecord ==
    wpc = "closed" =>
        \A max_file_size \in 1..SerializedSize(AllFetched) :
            \A i \in 1..Len(files) :
                SerializedSize(ParseFile(files[i]).items) > max_file_size =>
                    Len(ParseFile(files[i]).items) = 1

\* The ids of the items of the source collection.
SourceIds == 1..(nextId - 1)

C11_OrderKeptWithoutShuffle ==
    ~shuffle =>
        /\ submitted = parsed
        /\ ipc \in {"flush", "gather", "restore"} => items = <<>>

\* A file of three items was submitted unshuffled, to its end.
C11_Witness ==
    /\ ~shuffle
    /\ ipc = "gather"
    /\ Len(submitted) >= 3

\* C12: once the ranges of a collection are enumerated, query_items has been
\* called exactly once for each of its R ranges and for no other, and every
\* one of the R fetchers is started before any of them has ended.
C12_OneQueryPerRange ==
    epc /= "enum" =>
        \A r \in Ranges :
            /\ queries[r] = (IF r <= nranges THEN 1 ELSE 0)
            /\ r <= nranges => fst[r] /= "idle"

\* Two fetchers run, each on its own range, and one of them has ended.
C12_Witness ==
    /\ nranges = 2
    /\ fst[1] = "done"
    /\ fst[2] = "fetching"
    /\ queries[1] = 1
    /\ queries[2] = 1

\* C13: a failure in one collection's export (range enumeration, a fetch,
\* the writer) stays in that collection: its export_container never lets the
\* exception out, so the sibling's export is never cancelled, can always go
\* on, and is complete when it has ended.
C13_FailureIsolated ==
    /\ epc /= "raised"
    /\ sib /= "cancelled"
    /\ sib = "running" => ENABLED SiblingExport

\* The writer of one collection failed and its export ended with the error
\* logged; the sibling's export is complete.
C13_Witness ==
    /\ epc = "done_err"
    /\ wpc = "failed"
    /\ \E r \in 1..nranges : fst[r] = "failed"
    /\ sib = "done"

\* The running import_file call has read its file to the end and every
\* upsert task it created has completed: gather returns and the count is
\* logged.
JobAtEnd ==
    /\ ipc = "gather"
    /\ ActiveTasks(tasks) = {}

\* C14: an upsert that raises does not end its job: every upsert of the job
\* ends counted as imported or logged as failed, at the end of the job every
\* item of the file has been submitted and imported plus failed is the
\* number submitted, and the imported counter is the number of items stored
\* (seen on the first job, whose target holds nothing else).
C14_FailedUpsertOnlyCounted ==
    /\ ipc \in {"parse", "flush", "gather"} =>
           items_imported + items_failed + Cardinality(ActiveTasks(tasks))
               = Len(submitted)
    /\ JobAtEnd =>
           /\ items = <<>>
           /\ SameMultiset(submitted, parsed)
           /\ items_imported + items_failed = Len(submitted)
    /\ (jidx = 1 /\ ipc \in {"parse", "flush", "gather"}) =>
           Cardinality(docs[container_name]) = items_imported

\* A job of three items ended with one upsert failed and two stored.
C14_Witness ==
    /\ JobAtEnd
    /\ jidx = 1
    /\ Len(submitted) = 3
    /\ items_failed = 1
    /\ items_imported = 2

\* The export runs: export_cmd has not returned.
Exporting == dpc = "off"

\* The charges the round trips of the collection's fetchers reported so far:
\* Charge(k) = 1 + k for each trip, k its items.
ChargedSoFar == ntrips + (nextId - 1)

\* The cost totals are as C15 states them.
LedgerExact ==
    /\ Exporting =>
           /\ container_ru = ChargedSoFar
           /\ sibling_ru = (IF sib = "done" THEN Charge(0) ELSE 0)
           /\ total_ru = container_ru + sibling_ru
    /\ import_ru = Charge(1) * Cardinality(docs[<<"foo">>])

\* C15: in every state the global total is the sum of the charges every
\* round trip of every fetcher and every upsert has reported so far, during
\* export it is the sum of the per-collection totals, and no step makes a
\* total smaller (a new process starts its ledger at zero).
C15_LedgerExactAndMonotone ==
    [][/\ LedgerExact'
       /\ ~(Exporting /\ ~Exporting') =>
              /\ total_ru' >= total_ru
              /\ container_ru' >= container_ru
              /\ sibling_ru' >= sibling_ru
              /\ import_ru' >= import_ru]_vars

\* Fetchers of both collections have charged, interleaved.
C15_Witness ==
    /\ Exporting
    /\ ntrips >= 2
    /\ sib = "done"
    /\ \E r \in 1..nranges : fst[r] = "fetching"
    /\ total_ru > container_ru
    /\ container_ru > sibling_ru

\* Two upserts of the imported file have charged.
C15_WitnessImport ==
    /\ ~Exporting
    /\ import_ru = 2 * Charge(1)
    /\ Cardinality(docs[<<"foo">>]) = 2

\* C16: every upsert that has been issued (its task is inside the gate,
\* awaiting upsert_item) targets a collection that is present, also after a
\* create-if-absent call that failed.
C16_UpsertOnlyAgainstExisting ==
    \A i \in 1..Len(tasks) :
        tasks[i].st = "inflight" => cexists[tasks[i].cont]

\* C17: no upsert of a later job is issued while an upsert task of an
\* earlier job for the same destination is still scheduled or in flight.
C17_JobsStrictlySequential ==
    \A i, j \in 1..Len(tasks) :
        (tasks[i].job < tasks[j].job /\ tasks[i].cont = tasks[j].cont)
            => tasks[j].st /= "inflight"

\* The items of sequence q.
ItemsOf(q) == {q[i] : i \in DOMAIN q}

\* The items of q that are in set S, in the order of q.
RECURSIVE Restricted(_, _)
Restricted(q, S) ==
    IF q = <<>> THEN <<>>
    ELSE (IF Head(q) \in S THEN <<Head(q)>> ELSE <<>>) \o Restricted(Tail(q), S)

\* a is the beginning of b.
IsPrefix(a, b) == Len(a) <= Len(b) /\ a = SubSeq(b, 1, Len(a))

\* The items of the first n pages that fetcher r fetched: page order, then
\* item order within a page.
RECURSIVE FetchedBy(_, _)
FetchedBy(r, n) ==
    IF n = 0 THEN <<>>
    ELSE FetchedBy(r, n - 1) \o (IF pages[n].range = r THEN pages[n].items ELSE <<>>)

\* The positions of recs that hold an item of batch b.
PositionsOf(recs, b) == {i \in DOMAIN recs : recs[i] \in ItemsOf(b)}

SentinelLast == \A i \in DOMAIN queue : queue[i] = NoneBatch => i = Len(queue)

\* The sentinel is enqueued at most once, only after every fetcher has
\* terminated (none holds a batch to put), nothing is enqueued behind it, and
\* the writer has closed the file only after the sentinel, with every
\* enqueued batch consumed and written.
SentinelDiscipline ==
    /\ sentinels <= 1
    /\ sentinels = 1 =>
           /\ Gathered(fst, nranges)
           /\ \A r \in Ranges : hand[r] = <<>>
    /\ SentinelLast
    /\ (\E i \in DOMAIN queue : queue[i] = NoneBatch) => sentinels = 1
    /\ wpc = "closed" =>
           /\ sentinels = 1
           /\ queue = <<>>
           /\ wbatch = <<>>
           /\ SameMultiset(AllRecords, AllFetched)

\* export_container has returned.
ExportEnded == epc \in {"done_ok", "done_err"}

ImportingFile == ipc \in {"create", "capture", "open", "parse", "flush", "gather", "restore"}

\* C20: during the import of a file the upsert tasks that were created and
\* have not completed, waiting for the gate or in flight, are never more
\* than N + 20 (TaskSlack stands for the 20).
C20_ScheduledTasksCapped ==
    ImportingFile => Len(tasks) <= concurrency + TaskSlack

\* replace_container has been called and not yet returned.
RestoreIssued == ipc = "restore"

\* A policy was captured and its mode is not none.
CapturedEnabled == original_indexing_policy \notin {NoPolicy, "none"}

\* C21: the restore is issued only when no upsert task of the job is
\* scheduled or in flight any more, and it is issued if and only if a policy
\* was captured, its mode is not none, and the file was processed to its end
\* without read or parse error (import_file has reached its gather).
C21_RestoreAfterAllUpserts ==
    [][/\ RestoreIssued' =>
              /\ ActiveTasks(tasks') = {}
              /\ CapturedEnabled'
              /\ items' = <<>> /\ ~perr' /\ flush' = <<>>
              /\ SameMultiset(submitted', parsed')
       /\ (RestoreIssued' /\ ~RestoreIssued) => ipc = "gather"
       /\ (ipc = "gather" /\ ipc' /= "gather") => (RestoreIssued' <=> CapturedEnabled)
       /\ (ipc \in {"open", "parse", "flush"} /\ ipc' = "next") => (perr \/ ipc = "open")]_vars

\* A restore is issued at the end of a second job of three items, one of
\* whose upserts failed.
C21_Witness ==
    /\ RestoreIssued
    /\ jidx = 2
    /\ Len(submitted) = 3
    /\ items_failed >= 1

\* The fetcher of range r has hit an error.
Failed(r) == fst[r] = "failed"

\* C22: a fetcher that hit an error has stopped for good: it holds no batch,
\* makes no further query or round trip, and its failure changed nothing of
\* the other fetchers, the queue or the file; no record leaves the file; the
\* other fetchers can go on; and when the export of the collection has
\* returned the sentinel was enqueued, and a file the writer finalized is
\* the delimited text of exactly the batches that were enqueued.
C22_FetcherErrorIsLocal ==
    [][/\ \A r \in Ranges :
              /\ Failed(r)' => hand'[r] = <<>>
              /\ Failed(r) =>
                     /\ Failed(r)'
                     /\ queries'[r] = queries[r]
                     /\ dpc' = "off" => fetched'[r] = fetched[r]
              /\ (Failed(r)' /\ ~Failed(r)) =>
                     /\ \A x \in Ranges \ {r} : fst'[x] = fst[x]
                     /\ hand' = hand /\ queue' = queue /\ files' = files
                     /\ \A x \in Ranges \ {r} :
                            fst'[x] = "fetching" => ENABLED FetchEnd(x)
       /\ Len(files) <= Len(files')
       /\ \A i \in DOMAIN files : IsPrefix(files[i], files'[i])
       /\ ((\E r \in Ranges : Failed(r)') /\ ExportEnded') =>
              /\ sentinels' = 1
              /\ wpc' \in {"closed", "failed"}
       /\ wpc' = "closed" => epc' \in {"await_writer", "done_ok"}
       /\ wpc = "closed" => (wpc' = "closed" /\ files' = files /\ use_jsonl' = use_jsonl)
       /\ ((\E r \in Ranges : Failed(r)) /\ wpc = "closed" /\ epc = "await_writer") =>
              LET recs == AllRecords IN
              /\ Len(files) = 1
              /\ files[1] = FormatText(use_jsonl, recs)
              /\ SameMultiset(recs, AllFetched)]_vars

\* One fetcher failed after its batch was enqueued, the other went on to
\* fetch a batch after that, and the file was finalized with both.
C22_Witness ==
    /\ epc = "done_ok"
    /\ nranges = 2
    /\ Failed(1)
    /\ fst[2] = "done"
    /\ Len(pages) = 2
    /\ pages[1].range = 1
    /\ pages[2].range = 2
    /\ Len(AllRecords) = 3

\* C23: once the writer of a collection has failed with a file I/O error,
\* the export of the collection has ended or can still take a step towards
\* its end: it is never stuck with a fetcher (or the sentinel) suspended on
\* a push to the full queue that nothing drains any more.
C23_WriterFailureEndsExport ==
    wpc = "failed" => (ExportEnded \/ ENABLED ExportStep)

\* C24: with every store call returning, an import job is never stuck
\* before its end: while import_file imports a file, the main coroutine or
\* one of the upsert tasks can take a step, for every concurrency limit.
C24_ImportJobNeverStuck ==
    ImportingFile => ENABLED ImportStep

\* C25: with shuffling on and reservoir capacity K = SHUFFLE_BUFFER_SIZE,
\* the reservoir holds fewer than K items between two passes of the parse
\* loop (K at most within a pass, after the append), and the j-th item
\* handed to process_item is one of the first j + K - 1 items the parser
\* produced.
C25_BoundedDisplacement ==
    shuffle =>
        /\ Len(shuffle_buffer) < SHUFFLE_BUFFER_SIZE
        /\ \A j \in DOMAIN submitted :
               \E i \in DOMAIN parsed :
                   /\ i <= j + SHUFFLE_BUFFER_SIZE - 1
                   /\ parsed[i] = submitted[j]

\* The first item handed on is the K-th the parser produced, and the parser
\* has gone on beyond it.
C25_Witness ==
    /\ shuffle
    /\ ipc = "parse"
    /\ Len(parsed) > SHUFFLE_BUFFER_SIZE
    /\ Len(shuffle_buffer) = SHUFFLE_BUFFER_SIZE - 1
    /\ submitted /= <<>>
    /\ submitted[1] = parsed[SHUFFLE_BUFFER_SIZE]

\* import_file returns with this step.
ImportFileReturns == ImportingFile /\ ipc' = "next"

\* C26: no item is handed to process_item more often than the parser
\* yielded it, and when import_file returns, after the end of the file or
\* after an error of the parser, every item the parser yielded has been
\* handed to process_item exactly once.
C26_EveryParsedItemSubmitted ==
    [][/\ \A x \in 1..MaxFileItems : Count(submitted, x) <= Count(parsed, x)
       /\ ImportFileReturns => SameMultiset(submitted, parsed)]_vars

\* C27: whenever the export of a collection has returned, with success,
\* after a failed range enumeration or after a failure of the writer, every
\* output file of the collection parses without error in its encoding and is
\* the delimited text of its records: no `[` is left without its `]`.
C27_FilesValidOnReturn ==
    ExportEnded =>
        \A i \in DOMAIN files :
            LET read == ParseFile(files[i]) IN
            /\ ~read.err
            /\ files[i] = FormatText(use_jsonl, read.items)

====
